---- MODULE Spec2Model ----
(***************************************************************************)
(* Healthy-diet cost dashboard (src/app.py): one Streamlit script that is  *)
(* re-executed from top to bottom on every widget interaction.             *)
(*                                                                         *)
(* Values.  Regions, countries and cost categories are natural numbers     *)
(* whose numeric order stands for the lexicographic order of their names   *)
(* (pandas groupby sorts its keys).  Costs are integers: the daily cost in *)
(* tenths of a USD, the annual cost in whole USD.  A mean is kept exact as *)
(* the pair [sum, n]; n = 0 is pandas' NaN (mean of no rows).              *)
(***************************************************************************)
EXTENDS Integers, Sequences, FiniteSets

\* ------------------------------------------------------------------ bounds
\* Rows of Pool a small input table is drawn from.
PoolRows == 5
\* Countries of the wide input table.
NCountries == 21

\* ------------------------------------------------------- program constants
\* head(10) of top10 and bottom10.
TopN == 10
\* A script variable the run has not assigned.
Unset == 0

\* ----------------------------------------------------------------- helpers
Min2(a, b) == IF a <= b THEN a ELSE b

Range(s) == {s[i] : i \in DOMAIN s}

SetMin(S) == CHOOSE x \in S : \A y \in S : x <= y
SetMax(S) == CHOOSE x \in S : \A y \in S : y <= x

\* The elements of a finite set of integers in ascending order.
RECURSIVE SortedSeq(_)
SortedFrom(S, m) == <<m>> \o SortedSeq(S \ {m})
SortedSeq(S) == IF S = {} THEN << >> ELSE SortedFrom(S, SetMin(S))

RECURSIVE SumAt(_, _)
SumAt(vals, idx) ==
  IF idx = {} THEN 0
  ELSE LET i == CHOOSE j \in idx : TRUE IN vals[i] + SumAt(vals, idx \ {i})

Row(r, c, y, k, d, a) ==
  [region |-> r, country |-> c, year |-> y, cost_category |-> k,
   cost_healthy_diet_ppp_usd |-> d, annual_cost_healthy_diet_usd |-> a]

\* DataFrame column accessors: df["region"], df["country"], ...
ColRegion(d) == [i \in DOMAIN d |-> d[i].region]
ColCountry(d) == [i \in DOMAIN d |-> d[i].country]
ColYear(d) == [i \in DOMAIN d |-> d[i].year]
ColCategory(d) == [i \in DOMAIN d |-> d[i].cost_category]
ColDaily(d) == [i \in DOMAIN d |-> d[i].cost_healthy_diet_ppp_usd]
ColAnnual(d) == [i \in DOMAIN d |-> d[i].annual_cost_healthy_diet_usd]

\* ------------------------------------------------------------ input tables
\* Regions 1 Asia, 2 Europe; countries 1 France, 2 India, 3 Japan;
\* categories 1 High, 2 Low.  Rows 1-3 are the example table of the
\* documentation; rows 2 and 4 tie Japan with France and Asia with Europe.
Pool ==
  << Row(1, 2, 2020, 2, 25, 912),
     Row(1, 3, 2020, 1, 80, 2920),
     Row(2, 1, 2021, 1, 90, 3285),
     Row(2, 1, 2020, 1, 80, 2920),
     Row(1, 2, 2021, 2, 30, 1095),
     Row(1, 3, 2021, 1, 90, 3285) >>

\* Every non-empty subsequence of the first PoolRows rows of Pool.
PoolAt(order) == [p \in 1..Len(order) |-> Pool[order[p]]]

SmallTables == {PoolAt(SortedSeq(I)) : I \in (SUBSET (1..PoolRows)) \ {{}}}

\* The wide table: NCountries countries, listed in descending country order,
\* every odd country with a second year.  The costs are pairwise distinct
\* per country ("distinct"), equal in pairs of countries ("paired"), or all
\* equal in 2020 and distinct in 2021 ("level2020").  Region 1 holds the first TopN
\* countries, region 2 the next one, region 3 the rest, so that the region
\* filter yields views of fewer than TopN, exactly TopN, between TopN and
\* twice TopN, and at least twice TopN countries.
WideCost(variant, c, y) ==
  CASE variant = "distinct" -> 2 * ((5 * c) % 23) + 10 + (y - 2020)
    [] variant = "paired" -> 10 + ((c + 1) \div 2)
    [] OTHER -> IF y = 2020 THEN 50 ELSE 50 + 2 * c

WideRegion(c) == IF c <= TopN THEN 1 ELSE IF c = TopN + 1 THEN 2 ELSE 3

WideRowAt(c, y, cost) ==
  Row(WideRegion(c), c, y, IF cost < 30 THEN 2 ELSE 1, cost, cost * 36)

WideRow(variant, c, y) == WideRowAt(c, y, WideCost(variant, c, y))

WideYear(variant, cs, y) == [p \in 1..Len(cs) |-> WideRow(variant, cs[p], y)]

WideTable(variant) ==
  [p \in 1..NCountries |-> WideRow(variant, NCountries + 1 - p, 2020)]
  \o WideYear(variant, SortedSeq({c \in 1..NCountries : c % 2 = 1}), 2021)

WideTables == {WideTable(v) : v \in {"distinct", "paired", "level2020"}}

\* Tie orders an argsort of kind "quicksort" may produce (numpy documents it
\* as not stable): ties kept in input order, or ties in the opposite order.
SortKinds == {"stable", "reversed"}

VARIABLES
  file,                 \* contents of price_of_healthy_diet_clean.csv
  sortKind,             \* tie order of this build's quicksort argsort
  cache,                \* st.cache_data store of load_data
  reads,                \* number of pd.read_csv calls so far
  ran,                  \* the script has run at least once
  df,
  selected_regions, country_options, selected_countries,
  selected_years, selected_category,
  filtered_df,
  avg_daily_cost, avg_annual_cost,
  country_avg_cost, highest_cost_country, lowest_cost_country,
  yearly_avg, region_avg, top10, bottom10, cat_data,
  csv_data, cost_change, highest_region, insights,
  error,                \* "none", or the exception that ended the run
  rendered              \* the outputs the run has put on the page

vars ==
  << file, sortKind, cache, reads, ran, df,
     selected_regions, country_options, selected_countries,
     selected_years, selected_category, filtered_df,
     avg_daily_cost, avg_annual_cost,
     country_avg_cost, highest_cost_country, lowest_cost_country,
     yearly_avg, region_avg, top10, bottom10, cat_data,
     csv_data, cost_change, highest_region, insights, error, rendered >>

\* ------------------------------------------------------------ pandas steps
\* Series.isin, Series.between (inclusive at both ends) and the & of masks.
isin(col, S) == [i \in DOMAIN col |-> col[i] \in S]
\* Mutant of between: both ends exclusive (inclusive="neither").
betweenExclusive(col, lo, hi) == [i \in DOMAIN col |-> lo < col[i] /\ col[i] < hi]
between(col, lo, hi) == [i \in DOMAIN col |-> lo <= col[i] /\ col[i] <= hi]
MaskAnd(m1, m2) == [i \in DOMAIN m1 |-> m1[i] /\ m2[i]]

\* df[mask]: the rows whose mask is true, in the order of df.
Firsts(pairs) == [p \in DOMAIN pairs |-> pairs[p][1]]

Mask(d, m) ==
  Firsts(SelectSeq([i \in DOMAIN d |-> <<d[i], m[i]>>], LAMBDA x : x[2]))

\* Series.unique(): the distinct values in order of first appearance.
unique(col) ==
  Mask(col, [i \in DOMAIN col |-> \A j \in 1..(i - 1) : col[j] # col[i]])

\* Series.mean(): [sum, n]; n = 0 is NaN.
mean(col) == [sum |-> SumAt(col, DOMAIN col), n |-> Len(col)]

MeanLT(a, b) == a.sum * b.n < b.sum * a.n
MeanEQ(a, b) == a.sum * b.n = b.sum * a.n

\* groupby(key)[val].mean(): one entry per distinct key, keys ascending.
GroupEntry(k, vals, idx) ==
  [key |-> k, sum |-> SumAt(vals, idx), n |-> Cardinality(idx)]

GroupMeanOf(order, keys, vals) ==
  [g \in 1..Len(order) |->
     GroupEntry(order[g], vals, {i \in DOMAIN keys : keys[i] = order[g]})]

GroupMean(keys, vals) == GroupMeanOf(SortedSeq(Range(keys)), keys, vals)

\* Series.idxmax() / idxmin() of a non-empty series: the label of the first
\* occurrence of the maximum / minimum.  On an empty series pandas raises
\* ValueError; the script models that where it calls them.
idxmax(s) ==
  s[CHOOSE i \in DOMAIN s :
      /\ \A j \in DOMAIN s : ~MeanLT(s[i], s[j])
      /\ \A j \in 1..(i - 1) : MeanLT(s[j], s[i])].key

idxmin(s) ==
  s[CHOOSE i \in DOMAIN s :
      /\ \A j \in DOMAIN s : ~MeanLT(s[j], s[i])
      /\ \A j \in 1..(i - 1) : MeanLT(s[i], s[j])].key

\* sort_values(ascending) with the default kind "quicksort": ordered by
\* value; the order among equal values is the build's (sortKind).
TieBefore(i, j) == IF sortKind = "stable" THEN i < j ELSE j < i

SortsBefore(a, i, b, j, ascending) ==
  IF MeanEQ(a, b) THEN TieBefore(i, j)
  ELSE IF ascending THEN MeanLT(a, b) ELSE MeanLT(b, a)

\* pos[i]: the number of entries that sort before entry i.
Ranked(s, pos) == [p \in 1..Len(s) |-> s[CHOOSE i \in DOMAIN s : pos[i] = p - 1]]

sort_values(s, ascending) ==
  Ranked(s, [i \in DOMAIN s |->
               Cardinality({j \in DOMAIN s \ {i} :
                              SortsBefore(s[j], j, s[i], i, ascending)})])

head(s, n) == SubSeq(s, 1, Min2(n, Len(s)))

\* value_counts(): the count of every value present (row order left out).
value_counts(col) ==
  {[cost_category |-> k, count |-> Cardinality({i \in DOMAIN col : col[i] = k})] :
     k \in Range(col)}

\* to_csv(index=False): the header line, then one line per row.
to_csv(d) ==
  << <<"region", "country", "year", "cost_category",
       "cost_healthy_diet_ppp_usd", "annual_cost_healthy_diet_usd">> >>
  \o [i \in DOMAIN d |->
        << d[i].region, d[i].country, d[i].year, d[i].cost_category,
           d[i].cost_healthy_diet_ppp_usd, d[i].annual_cost_healthy_diet_usd >>]

\* f"{x:.2f}" of the exact value a / b (b > 0), as a number of hundredths:
\* round to nearest, ties to even.
HalfEven(q, r, b) ==
  IF 2 * r < b THEN q
  ELSE IF 2 * r > b THEN q + 1
  ELSE IF q % 2 = 0 THEN q ELSE q + 1

Fmt2(a, b) == HalfEven((100 * a) \div b, (100 * a) % b, b)

\* --------------------------------------------------------------- load_data
\* @st.cache_data: the first call reads the file and stores the value; a
\* later call returns the stored value.
\* Mutant of CacheHit: the stored table is shared with the runs, and the
\* previous run has appended its view to it.
CacheHitAppended(c) == c.value \o filtered_df
CacheHit(c) == c.value

\* Mutant of load_data: no cache, every call reads the file.
load_data_uncached(c) == [value |-> file, cache |-> c, read |-> 1]

load_data(c) ==
  IF c.filled
  THEN [value |-> CacheHit(c), cache |-> c, read |-> 0]
  ELSE [value |-> file, cache |-> [filled |-> TRUE, value |-> file], read |-> 1]

\* ----------------------------------------------------------------- widgets
year_min(d) == SetMin(Range(ColYear(d)))
year_max(d) == SetMax(Range(ColYear(d)))

\* Options (and defaults) of the three multiselects.
RegionOptions(d) == unique(ColRegion(d))
CountryOptions(d, R) == unique(ColCountry(Mask(d, isin(ColRegion(d), R))))
CategoryOptions(d) == unique(ColCategory(d))

\* ----------------------------------------------------------- apply filters
\* Mutant of ApplyFilters: the year test keeps only its lower end.
ApplyFiltersYearFrom(d, R, C, Y, K) ==
  Mask(d,
       MaskAnd(MaskAnd(MaskAnd(isin(ColRegion(d), R), isin(ColCountry(d), C)),
                       [i \in DOMAIN d |-> Y[1] <= d[i].year]),
               isin(ColCategory(d), K)))

\* Mutant of ApplyFilters: the region test is left out.
ApplyFiltersNoRegion(d, R, C, Y, K) ==
  Mask(d,
       MaskAnd(MaskAnd(isin(ColCountry(d), C), between(ColYear(d), Y[1], Y[2])),
               isin(ColCategory(d), K)))

ApplyFilters(d, R, C, Y, K) ==
  Mask(d,
       MaskAnd(MaskAnd(MaskAnd(isin(ColRegion(d), R), isin(ColCountry(d), C)),
                       between(ColYear(d), Y[1], Y[2])),
               isin(ColCategory(d), K)))

\* ------------------------------------------------------------------ charts
\* Mutant of Top10Of: ascending=False forgotten.
Top10OfAscending(cavg) == head(sort_values(cavg, TRUE), TopN)
Top10Of(cavg) == head(sort_values(cavg, FALSE), TopN)

\* Mutant of Bottom10Of: the top10 line copied unchanged.
Bottom10OfDescending(cavg) == head(sort_values(cavg, FALSE), TopN)
Bottom10Of(cavg) == head(sort_values(cavg, TRUE), TopN)

\* yearly_avg.iloc[-1] - yearly_avg.iloc[0], as the fraction [num, den].
MeanDiff(b, a) == [num |-> b.sum * a.n - a.sum * b.n, den |-> a.n * b.n]

CostChange(yavg) == MeanDiff(yavg[Len(yavg)], yavg[1])

HighestRegion(ravg) == sort_values(ravg, FALSE)[1].key

AllOutputs ==
  {"kpi", "fig1", "fig2", "fig3", "fig4", "fig5", "fig6",
   "table", "download", "insights"}

\* -------------------------------------------------------------- the script
\* One run of app.py, top to bottom, with R, C, Y, K the values the four
\* sidebar widgets return.  country_avg_cost.idxmax() raises ValueError on
\* an empty series; Streamlit then ends the run, and nothing below that line
\* is computed or put on the page.
Script(R, C, Y, K) ==
  \E ld \in {load_data(cache)} :
  \E fdf \in {ApplyFilters(ld.value, R, C, Y, K)} :
  \E cavg \in {GroupMean(ColCountry(fdf), ColDaily(fdf))} :
  \E raised \in {Len(cavg) = 0} :
  \E yavg \in {GroupMean(ColYear(fdf), ColDaily(fdf))} :
  \E ravg \in {GroupMean(ColRegion(fdf), ColDaily(fdf))} :
  \E say \in {~raised /\ Len(yavg) # 0 /\ Len(ravg) # 0} :
     /\ cache' = ld.cache
     /\ reads' = reads + ld.read
     /\ ran' = TRUE
     /\ df' = ld.value
     /\ selected_regions' = R
     /\ country_options' = CountryOptions(ld.value, R)
     /\ selected_countries' = C
     /\ selected_years' = Y
     /\ selected_category' = K
     /\ filtered_df' = fdf
     /\ avg_daily_cost' = mean(ColDaily(fdf))
     /\ avg_annual_cost' = mean(ColAnnual(fdf))
     /\ country_avg_cost' = cavg
     /\ highest_cost_country' = IF raised THEN Unset ELSE idxmax(cavg)
     /\ lowest_cost_country' = IF raised THEN Unset ELSE idxmin(cavg)
     /\ error' = IF raised THEN "ValueError" ELSE "none"
     /\ yearly_avg' = IF raised THEN << >> ELSE yavg
     /\ region_avg' = IF raised THEN << >> ELSE ravg
     /\ top10' = IF raised THEN << >> ELSE Top10Of(cavg)
     /\ bottom10' = IF raised THEN << >> ELSE Bottom10Of(cavg)
     /\ cat_data' = IF raised THEN {} ELSE value_counts(ColCategory(fdf))
     /\ csv_data' = IF raised THEN << >> ELSE to_csv(fdf)
     /\ cost_change' = IF say THEN CostChange(yavg) ELSE [num |-> 0, den |-> 0]
     /\ highest_region' = IF say THEN HighestRegion(ravg) ELSE Unset
     /\ insights' =
          IF say
          THEN << <<"change", Fmt2(cost_change'.num, 10 * cost_change'.den),
                    Y[1], Y[2]>>,
                  <<"region", highest_region'>>,
                  <<"countries", highest_cost_country', lowest_cost_country'>>,
                  <<"average",
                    Fmt2(avg_daily_cost'.sum, 10 * avg_daily_cost'.n),
                    Fmt2(avg_annual_cost'.sum, avg_annual_cost'.n)>> >>
          ELSE << >>
     /\ rendered' =
          IF raised THEN {}
          ELSE IF say THEN AllOutputs ELSE AllOutputs \ {"insights"}
     /\ UNCHANGED <<file, sortKind>>

\* ------------------------------------------------------------- interactions
\* A run in which every widget returns its default.
DefaultRun ==
  \E d \in {load_data(cache).value} :
  \E R \in {Range(RegionOptions(d))} :
    Script(R, Range(CountryOptions(d, R)),
           <<year_min(d), year_max(d)>>, Range(CategoryOptions(d)))

\* The first run of the process.
FirstRun == ~ran /\ DefaultRun

\* A new browser session of the same process: the widgets are back at
\* their defaults, the st.cache_data store is the process's.
NewSession == ran /\ DefaultRun

\* The selections one click away in a multiselect: one offered option
\* added, one selected value removed, or everything cleared.
OneClick(selected, options) ==
  ({selected \cup {x} : x \in options} \cup {selected \ {x} : x \in selected}
     \cup {{}}) \ {selected}

\* The user changes the region selection.  The options of the country
\* widget change with it; what that widget then returns is the widget
\* layer's: its default for the new options, its previous value, or its
\* previous value without the options that are gone.
ChangeRegions ==
  /\ ran
  /\ \E R \in OneClick(selected_regions, Range(RegionOptions(df))) :
       \E C \in {Range(CountryOptions(df, R)), selected_countries,
                 selected_countries \cap Range(CountryOptions(df, R))} :
         Script(R, C, selected_years, selected_category)

\* The user changes the country selection.
ChangeCountries ==
  /\ ran
  /\ \E C \in OneClick(selected_countries, Range(country_options)) :
       Script(selected_regions, C, selected_years, selected_category)

\* The user moves an end of the year slider.
ChangeYears ==
  /\ ran
  /\ \E lo \in year_min(df)..year_max(df) : \E hi \in lo..year_max(df) :
       /\ <<lo, hi>> # selected_years
       /\ Script(selected_regions, selected_countries, <<lo, hi>>,
                 selected_category)

\* The user changes the cost-category selection.
ChangeCategory ==
  /\ ran
  /\ \E K \in OneClick(selected_category, Range(CategoryOptions(df))) :
       Script(selected_regions, selected_countries, selected_years, K)

\* ---------------------------------------------------------- specifications
InitWith(tables) ==
  /\ file \in tables
  /\ sortKind \in SortKinds
  /\ cache = [filled |-> FALSE, value |-> << >>]
  /\ reads = 0
  /\ ran = FALSE
  /\ df = << >>
  /\ selected_regions = {}
  /\ country_options = << >>
  /\ selected_countries = {}
  /\ selected_years = <<0, 0>>
  /\ selected_category = {}
  /\ filtered_df = << >>
  /\ avg_daily_cost = [sum |-> 0, n |-> 0]
  /\ avg_annual_cost = [sum |-> 0, n |-> 0]
  /\ country_avg_cost = << >>
  /\ highest_cost_country = Unset
  /\ lowest_cost_country = Unset
  /\ yearly_avg = << >>
  /\ region_avg = << >>
  /\ top10 = << >>
  /\ bottom10 = << >>
  /\ cat_data = {}
  /\ csv_data = << >>
  /\ cost_change = [num |-> 0, den |-> 0]
  /\ highest_region = Unset
  /\ insights = << >>
  /\ error = "none"
  /\ rendered = {}

\* A session over a small table, with every control in play.
Init == InitWith(SmallTables)

Next ==
  \/ FirstRun
  \/ NewSession
  \/ ChangeRegions
  \/ ChangeCountries
  \/ ChangeYears
  \/ ChangeCategory

Spec == Init /\ [][Next]_vars

\* A session over a wide table (more than twice TopN countries), with the
\* region and year controls in play.
InitWide == InitWith(WideTables)

NextWide ==
  \/ FirstRun
  \/ NewSession
  \/ ChangeRegions
  \/ ChangeYears

SpecWide == InitWide /\ [][NextWide]_vars

\* ------------------------------------------------------------------ claims
Keys(s) == {s[i].key : i \in DOMAIN s}

Selected(r) ==
  /\ r.region \in selected_regions
  /\ r.country \in selected_countries
  /\ selected_years[1] <= r.year
  /\ r.year <= selected_years[2]
  /\ r.cost_category \in selected_category

\* view is the rows of d at the indices in kept, in the order of d.
IsSubsequenceAt(view, d, kept) ==
  /\ Len(view) = Cardinality(kept)
  /\ \A i \in kept : view[Cardinality({j \in kept : j <= i})] = d[i]

\* C1: the filtered view is exactly the rows of the dataset, in dataset
\* order, that pass all four tests (region, country, year range inclusive,
\* cost category); every row left out fails at least one.
C1_FilteredViewExact ==
  ran => IsSubsequenceAt(filtered_df, df, {i \in DOMAIN df : Selected(df[i])})

C1_Witness ==
  /\ ran
  /\ Len(filtered_df) > 0
  /\ \E i \in DOMAIN df : df[i].year > selected_years[2]
  /\ \E i \in DOMAIN df : df[i].region \in selected_regions /\ ~Selected(df[i])

Charts == {"fig1", "fig2", "fig3", "fig4", "fig5", "fig6"}

\* C2: when the selection matches no row, the run completes without an
\* exception: the view is empty, both means and the highest/lowest-cost
\* country are shown as "no data", and every chart is drawn from a series
\* of zero rows.
C2_EmptyViewNoError ==
  (ran /\ Len(filtered_df) = 0) =>
    /\ error = "none"
    /\ {"kpi", "table", "download"} \cup Charts \subseteq rendered
    /\ avg_daily_cost.n = 0 /\ avg_annual_cost.n = 0
    /\ highest_cost_country = Unset /\ lowest_cost_country = Unset
    /\ Len(yearly_avg) = 0 /\ Len(region_avg) = 0
    /\ Len(top10) = 0 /\ Len(bottom10) = 0 /\ cat_data = {}

\* C3 as stated: with more than TopN distinct countries in the view, no
\* country is in both top10 and bottom10.
C3_DisjointAboveTen ==
  (ran /\ Len(country_avg_cost) > TopN) => Keys(top10) \cap Keys(bottom10) = {}

DistinctMeans(s) ==
  \A i \in DOMAIN s : \A j \in DOMAIN s : i # j => ~MeanEQ(s[i], s[j])

\* C3 amended: with at least 2 * TopN distinct countries in the view, and
\* no two of them with the same mean daily cost, no country is in both
\* top10 and bottom10.
C3_DisjointFromTwenty ==
  (ran /\ Len(country_avg_cost) >= 2 * TopN /\ DistinctMeans(country_avg_cost))
    => Keys(top10) \cap Keys(bottom10) = {}

C3_Witness ==
  /\ ran
  /\ Len(country_avg_cost) >= 2 * TopN
  /\ DistinctMeans(country_avg_cost)
  /\ Len(top10) = TopN /\ Len(bottom10) = TopN

\* Why C3 amended asks for distinct means: this state is reachable, a view
\* of at least 2 * TopN countries, all of one mean, whose top10 and bottom10
\* share a country.
C3_TiedOverlap ==
  /\ ran
  /\ Len(country_avg_cost) >= 2 * TopN
  /\ Keys(top10) \cap Keys(bottom10) # {}

\* C4: the file is read at most once per process; once the table is
\* stored, every later run gets the stored table without a read, every run
\* sees the table of the file, and no run changes it.
C4_LoadedOnce ==
  [][ /\ reads' <= 1
      /\ cache.filled => (cache' = cache /\ reads' = reads /\ df' = cache.value)
      /\ ran => df' = df
      /\ df' = file /\ cache'.value = file ]_vars

C4_Witness ==
  /\ ran /\ reads = 1 /\ cache.filled
  /\ selected_regions # Range(ColRegion(df))
  /\ Len(filtered_df) > 0
  /\ csv_data = to_csv(filtered_df)

\* c is selected, and every row of c lies in a region that is not selected.
Stale(c) ==
  /\ c \in selected_countries
  /\ c \in Range(ColCountry(df))
  /\ \A i \in DOMAIN df : df[i].country = c => df[i].region \notin selected_regions

\* C5: a selected country whose region is no longer selected makes no run
\* fail in the filter and contributes no row to the view; the country
\* options offered are exactly the distinct countries of the rows whose
\* region is selected.
C5_StaleCountry ==
  ran =>
    /\ \A c \in selected_countries :
         Stale(c) => \A i \in DOMAIN filtered_df : filtered_df[i].country # c
    /\ error # "none" => Len(filtered_df) = 0
    /\ Range(country_options) =
         {df[i].country : i \in {j \in DOMAIN df : df[j].region \in selected_regions}}
    /\ Len(country_options) = Cardinality(Range(country_options))

C5_Witness ==
  /\ ran
  /\ \E c \in selected_countries : Stale(c)
  /\ Len(filtered_df) > 0
  /\ error = "none"

DefaultSelection ==
  /\ selected_regions = Range(ColRegion(df))
  /\ selected_countries = Range(ColCountry(df))
  /\ selected_years = <<SetMin(Range(ColYear(df))), SetMax(Range(ColYear(df)))>>
  /\ selected_category = Range(ColCategory(df))

\* C6: with every region, every country, the full year range and every
\* cost category selected, the view is the whole dataset, in order.
C6_DefaultKeepsAll == (ran /\ DefaultSelection) => filtered_df = df

C6_Witness ==
  /\ ran /\ DefaultSelection
  /\ Len(df) > 1
  /\ selected_years[1] < selected_years[2]
  /\ filtered_df = file

\* C7: whatever runs came before, the view and every aggregate of a run are
\* the ones a first run over the file computes for the same selection.
C7_HistoryIndependent ==
  ran =>
    /\ filtered_df = ApplyFilters(file, selected_regions, selected_countries,
                                  selected_years, selected_category)
    /\ country_options = CountryOptions(file, selected_regions)
    /\ avg_daily_cost = mean(ColDaily(filtered_df))
    /\ avg_annual_cost = mean(ColAnnual(filtered_df))
    /\ country_avg_cost = GroupMean(ColCountry(filtered_df), ColDaily(filtered_df))
    /\ error = "none" =>
         /\ highest_cost_country = idxmax(country_avg_cost)
         /\ lowest_cost_country = idxmin(country_avg_cost)
         /\ yearly_avg = GroupMean(ColYear(filtered_df), ColDaily(filtered_df))
         /\ region_avg = GroupMean(ColRegion(filtered_df), ColDaily(filtered_df))
         /\ top10 = Top10Of(country_avg_cost)
         /\ bottom10 = Bottom10Of(country_avg_cost)
         /\ cat_data = value_counts(ColCategory(filtered_df))
         /\ csv_data = to_csv(filtered_df)
    /\ error = "none" <=> Len(filtered_df) > 0

C7_Witness ==
  /\ ran /\ reads = 1
  /\ selected_category # Range(ColCategory(file))
  /\ selected_countries # Range(ColCountry(file))
  /\ Len(filtered_df) > 0
  /\ Len(filtered_df) < Len(file)

\* The mean daily cost of the rows of the view in year y, as [sum, n].
YearMean(y) ==
  mean(ColDaily(Mask(filtered_df, [i \in DOMAIN filtered_df |-> filtered_df[i].year = y])))

ChangeBetween(first, last) ==
  /\ cost_change.den = first.n * last.n
  /\ cost_change.num = last.sum * first.n - first.sum * last.n

\* C8: cost change is the mean daily cost of the largest year in the view
\* minus that of the smallest year; with one year it is 0; with no year the
\* run emits no insight sentence and reaches its end without an error.
C8_CostChange ==
  ran =>
    /\ Len(filtered_df) > 0 =>
         /\ Len(insights) = 4
         /\ ChangeBetween(YearMean(SetMin(Range(ColYear(filtered_df)))),
                          YearMean(SetMax(Range(ColYear(filtered_df)))))
         /\ Cardinality(Range(ColYear(filtered_df))) = 1 => cost_change.num = 0
    /\ Len(filtered_df) = 0 =>
         /\ Len(insights) = 0
         /\ error = "none"
         /\ "download" \in rendered

\* The part of C8 about views with at least one row, which the code meets.
C8_ChangeWhenData ==
  (ran /\ Len(filtered_df) > 0) =>
    /\ Len(insights) = 4
    /\ ChangeBetween(YearMean(SetMin(Range(ColYear(filtered_df)))),
                     YearMean(SetMax(Range(ColYear(filtered_df)))))
    /\ Cardinality(Range(ColYear(filtered_df))) = 1 => cost_change.num = 0

\* The keys of s whose mean no other entry exceeds / undercuts.
Highest(s) == {s[i].key : i \in {j \in DOMAIN s : \A k \in DOMAIN s : ~MeanLT(s[j], s[k])}}
Lowest(s) == {s[i].key : i \in {j \in DOMAIN s : \A k \in DOMAIN s : ~MeanLT(s[k], s[j])}}

C9_FirstOfTiedCountries ==
  (ran /\ error = "none") =>
    /\ highest_cost_country = SetMin(Highest(country_avg_cost))
    /\ lowest_cost_country = SetMin(Lowest(country_avg_cost))

\* s is the first Min2(TopN, n) entries of an ordering of all by mean,
\* descending or ascending: as long as it can be, drawn from all without
\* repetition, ordered, and with no entry left out that belongs before one
\* taken.
IsHeadOf(s, all, descending) ==
  /\ Len(s) = Min2(TopN, Len(all))
  /\ \A p \in DOMAIN s : s[p] \in Range(all)
  /\ \A p \in DOMAIN s : \A q \in DOMAIN s : p # q => s[p].key # s[q].key
  /\ \A p \in DOMAIN s : \A q \in DOMAIN s :
       p < q => IF descending THEN ~MeanLT(s[p], s[q]) ELSE ~MeanLT(s[q], s[p])
  /\ \A e \in Range(all) \ Range(s) : \A p \in DOMAIN s :
       IF descending THEN ~MeanLT(s[p], e) ELSE ~MeanLT(e, s[p])

\* C10: top10 is min(TopN, n) entries of the per-country means in
\* non-increasing order, none outside it strictly greater than one inside;
\* bottom10 likewise in non-decreasing order, none outside strictly smaller.
C10_TopBottomShape ==
  ran => /\ IsHeadOf(top10, country_avg_cost, TRUE)
         /\ IsHeadOf(bottom10, country_avg_cost, FALSE)

C10_Witness ==
  /\ ran
  /\ Len(country_avg_cost) > TopN
  /\ Len(top10) = TopN
  /\ ~DistinctMeans(country_avg_cost)
  /\ \E p \in DOMAIN top10 : MeanLT(top10[p], top10[1])

====
